---- MODULE Spec2Model ----
(***************************************************************************)
(* Model of protodesc2src.py: the renderer that turns a protobuf file      *)
(* descriptor back into .proto source text.                                *)
(*                                                                         *)
(* Strings are sequences of atoms (identifiers and literal pieces), so     *)
(* that startswith, lstrip, slicing and f-string concatenation are carried *)
(* out as the code carries them out.  The sink is the concatenation of     *)
(* everything written to it.  An exception is a value of the writer        *)
(* state's err field: once set, nothing later in the call runs.            *)
(***************************************************************************)
EXTENDS Integers, Sequences, FiniteSets, TLC

VARIABLES desc, pre, phase, via, conv, out, err, fresh

vars == <<desc, pre, phase, via, conv, out, err, fresh>>

(***************************************************************************)
(* Bounds of the explored descriptors.                                     *)
(***************************************************************************)
MaxDepth == 2
MaxOptions == 2

(***************************************************************************)
(* String helpers.                                                         *)
(***************************************************************************)
Q == "\""

StartsWith(string, prefix) ==
    /\ Len(prefix) <= Len(string)
    /\ SubSeq(string, 1, Len(prefix)) = prefix

Slice(string, n) == SubSeq(string, n + 1, Len(string))

remove_prefix(string, prefix) ==
    IF StartsWith(string, prefix) THEN Slice(string, Len(prefix)) ELSE string

RECURSIVE lstrip_dot(_)
lstrip_dot(string) ==
    IF string # <<>> /\ Head(string) = "." THEN lstrip_dot(Tail(string)) ELSE string

RECURSIVE Rep(_, _)
Rep(s, n) == IF n <= 0 THEN <<>> ELSE s \o Rep(s, n - 1)

\* str(int) inside an f-string
IntStr(n) == <<ToString(n)>>

(***************************************************************************)
(* descriptor_pb2 enumerations.                                            *)
(***************************************************************************)
TypeName(t) ==
    CASE t = 1 -> "TYPE_DOUBLE"   [] t = 2 -> "TYPE_FLOAT"
      [] t = 3 -> "TYPE_INT64"    [] t = 4 -> "TYPE_UINT64"
      [] t = 5 -> "TYPE_INT32"    [] t = 6 -> "TYPE_FIXED64"
      [] t = 7 -> "TYPE_FIXED32"  [] t = 8 -> "TYPE_BOOL"
      [] t = 9 -> "TYPE_STRING"   [] t = 10 -> "TYPE_GROUP"
      [] t = 11 -> "TYPE_MESSAGE" [] t = 12 -> "TYPE_BYTES"
      [] t = 13 -> "TYPE_UINT32"  [] t = 14 -> "TYPE_ENUM"
      [] t = 15 -> "TYPE_SFIXED32" [] t = 16 -> "TYPE_SFIXED64"
      [] t = 17 -> "TYPE_SINT32"  [] t = 18 -> "TYPE_SINT64"

LabelName(l) ==
    CASE l = 1 -> "LABEL_OPTIONAL" [] l = 2 -> "LABEL_REQUIRED" [] l = 3 -> "LABEL_REPEATED"

OptimizeModeName(v) ==
    CASE v = 1 -> "SPEED" [] v = 2 -> "CODE_SIZE" [] v = 3 -> "LITE_RUNTIME"

\* Truth value of a protobuf message object (desc.options, field.options):
\* the message classes define neither __bool__ nor __len__, so Python's
\* truth test answers True whether or not any option is set.
MessageTruthy(options) == TRUE

(***************************************************************************)
(* Writer state: the attributes of a ProtoWriter instance during a call.   *)
(*   cls            "Desc2Proto2" or "Desc2Proto3"                         *)
(*   out            text written to the sink by this call                  *)
(*   indent_level   self.indent_level                                      *)
(*   has_package    whether the attribute self.package_name exists         *)
(*   package_name   self.package_name                                      *)
(*   err            the exception that ended the call, or "none"           *)
(***************************************************************************)
indent == <<"    ">>

NewWriter(cls) ==
    [cls |-> cls, out |-> <<>>, indent_level |-> 0, has_package |-> FALSE,
     package_name |-> <<>>, err |-> "none"]

Raise(w, e) == IF w.err # "none" THEN w ELSE [w EXCEPT !.err = e]

write(w, s) == IF w.err # "none" THEN w ELSE [w EXCEPT !.out = @ \o s]

write_indent(w) == write(w, Rep(indent, w.indent_level))

write_ln(w, s) == write(write(write_indent(w), s), <<"\n">>)

write_stmt(w, s) == write(write(write_indent(w), s), <<";\n">>)

\* The Indent decorator: the decrement is skipped when fun raises.
IndentEnter(w) == IF w.err # "none" THEN w ELSE [w EXCEPT !.indent_level = @ + 1]

IndentLeave(w) == IF w.err # "none" THEN w ELSE [w EXCEPT !.indent_level = @ - 1]

(***************************************************************************)
(* Options.  An option is [name, t, s, b, n]: t is the Python type of the  *)
(* value ("str", "bool" or "int"), s/b/n the value of that type.           *)
(***************************************************************************)
NoneValue == [none |-> TRUE, s |-> <<>>]
StrValue(s) == [none |-> FALSE, s |-> s]

\* str(value) inside an f-string; str(None) is 'None'
Format(v) == IF v.none THEN <<"None">> ELSE v.s

get_option_value(value) ==
    IF value.t = "str" THEN StrValue(<<Q>> \o value.s \o <<Q>>)
    ELSE IF value.t = "bool" THEN StrValue(IF value.b THEN <<"true">> ELSE <<"false">>)
    ELSE NoneValue

RECURSIVE write_file_options(_, _)
write_file_options(w, options) ==
    IF w.err # "none" \/ options = <<>> THEN w
    ELSE write_file_options(
             write_stmt(w, <<"option ">> \o Head(options).name \o <<" = ">>
                           \o Format(IF Head(options).name = <<"optimize_for">>
                                     THEN StrValue(<<OptimizeModeName(Head(options).n)>>)
                                     ELSE get_option_value(Head(options)))),
             Tail(options))

RECURSIVE write_field_options(_, _)
write_field_options(w, options) ==
    IF w.err # "none" \/ options = <<>> THEN w
    ELSE write_field_options(
             write(w, <<" [">> \o Head(options).name \o <<" = ">>
                      \o Format(get_option_value(Head(options))) \o <<"]">>),
             Tail(options))

RECURSIVE write_imports(_, _)
write_imports(w, deps) ==
    IF w.err # "none" \/ deps = <<>> THEN w
    ELSE write_imports(write_stmt(w, <<"import ", Q>> \o Head(deps) \o <<Q>>), Tail(deps))

write_dependency(w, deps) ==
    IF Len(deps) # 0 THEN write(write_imports(w, deps), <<"\n">>)
    ELSE write_imports(w, deps)

(***************************************************************************)
(* Enums.                                                                  *)
(***************************************************************************)
RECURSIVE write_enum_values(_, _)
write_enum_values(w, values) ==
    IF w.err # "none" \/ values = <<>> THEN w
    ELSE write_enum_values(
             write_stmt(w, Head(values).name \o <<" = ">> \o IntStr(Head(values).number)),
             Tail(values))

write_enum_body(w, enum) == IndentLeave(write_enum_values(IndentEnter(w), enum.value))

write_enum_type(w, enum) ==
    write_ln(write_enum_body(write_ln(w, <<"enum ">> \o enum.name \o <<" {">>), enum),
             <<"}">>)

RECURSIVE write_enum_types(_, _)
write_enum_types(w, enums) ==
    IF w.err # "none" \/ enums = <<>> THEN w
    ELSE write_enum_types(write_enum_type(w, Head(enums)), Tail(enums))

(***************************************************************************)
(* Field types.                                                            *)
(***************************************************************************)
name_map ==
    [n \in {"TYPE_BOOL", "TYPE_BYTES", "TYPE_DOUBLE", "TYPE_INT32", "TYPE_INT64",
            "TYPE_UINT32", "TYPE_UINT64", "TYPE_SINT32", "TYPE_SINT64",
            "TYPE_FIXED32", "TYPE_FIXED64", "TYPE_SFIXED32", "TYPE_SFIXED64",
            "TYPE_STRING"} |->
        CASE n = "TYPE_BOOL" -> "bool"         [] n = "TYPE_BYTES" -> "bytes"
          [] n = "TYPE_DOUBLE" -> "double"     [] n = "TYPE_INT32" -> "int32"
          [] n = "TYPE_INT64" -> "int64"       [] n = "TYPE_UINT32" -> "uint32"
          [] n = "TYPE_UINT64" -> "uint64"     [] n = "TYPE_SINT32" -> "sint32"
          [] n = "TYPE_SINT64" -> "sint64"     [] n = "TYPE_FIXED32" -> "fixed32"
          [] n = "TYPE_FIXED64" -> "fixed64"   [] n = "TYPE_SFIXED32" -> "sfixed32"
          [] n = "TYPE_SFIXED64" -> "sfixed64" [] n = "TYPE_STRING" -> "string"]

\* A value returned by a function that may raise: err is the exception.
Ok(s) == [err |-> "none", s |-> s]
Fail(e) == [err |-> e, s |-> <<>>]

\* The result of get_field: a field, or None.
NoField == [none |-> TRUE, type |-> 0, type_name |-> <<>>]
SomeField(f) == [none |-> FALSE, type |-> f.type, type_name |-> f.type_name]

\* field is None when get_field found nothing: None.type raises AttributeError.
\* self.package_name raises AttributeError when __call__ never assigned it.
get_field_type_name(w, field) ==
    IF field.none THEN Fail("AttributeError")
    ELSE IF TypeName(field.type) \in DOMAIN name_map
         THEN Ok(<<name_map[TypeName(field.type)]>>)
         ELSE IF TypeName(field.type) \in {"TYPE_MESSAGE", "TYPE_ENUM"}
              THEN IF ~w.has_package THEN Fail("AttributeError")
                   ELSE Ok(remove_prefix(lstrip_dot(field.type_name),
                                         w.package_name \o <<".">>))
              ELSE Fail("NotImplementedError")

\* The index of the first nested type with the name, or LookupError.
get_nested_type(nested_types, name) ==
    IF \E i \in 1..Len(nested_types) : nested_types[i].name = name
    THEN [err |-> "none",
          i |-> CHOOSE i \in 1..Len(nested_types) :
                    /\ nested_types[i].name = name
                    /\ \A j \in 1..(i - 1) : nested_types[j].name # name]
    ELSE [err |-> "LookupError", i |-> 0]

RECURSIVE get_field(_, _)
get_field(fields, name) ==
    IF fields = <<>> THEN NoField
    ELSE IF Head(fields).name = name THEN SomeField(Head(fields))
         ELSE get_field(Tail(fields), name)

Proto2_write_field_label(w, label) ==
    CASE LabelName(label) = "LABEL_REPEATED" -> write(w, <<"repeated ">>)
      [] LabelName(label) = "LABEL_OPTIONAL" -> write(w, <<"optional ">>)
      [] LabelName(label) = "LABEL_REQUIRED" -> write(w, <<"required ">>)
      [] OTHER -> Raise(w, "RuntimeError")

\* Variant: the proto3 writer spells out the OPTIONAL label as proto2 does.
Proto3_write_field_label_explicit(w, label) ==
    CASE LabelName(label) = "LABEL_REPEATED" -> write(w, <<"repeated ">>)
      [] LabelName(label) = "LABEL_OPTIONAL" -> write(w, <<"optional ">>)
      [] OTHER -> Raise(w, "RuntimeError")

Proto3_write_field_label(w, label) ==
    CASE LabelName(label) = "LABEL_REPEATED" -> write(w, <<"repeated ">>)
      [] LabelName(label) = "LABEL_OPTIONAL" -> w
      [] OTHER -> Raise(w, "RuntimeError")

write_field_label(w, label) ==
    IF w.cls = "Desc2Proto3" THEN Proto3_write_field_label(w, label)
    ELSE IF w.cls = "Desc2Proto2" THEN Proto2_write_field_label(w, label)
    ELSE Raise(w, "NotImplementedError")

\* The map<K, V> text of a nested type flagged map_entry: k and v are the
\* results of get_field_type_name for its key and value fields.
map_type_name(k, v) ==
    IF k.err # "none" THEN k
    ELSE IF v.err # "none" THEN v
    ELSE Ok(<<"map<">> \o k.s \o <<", ">> \o v.s \o <<">">>)

\* The branches of write_field_type that write the label and the type name.
write_label_and_type(w, field, type_name) ==
    write(IF field.label # 0 THEN write_field_label(w, field.label) ELSE w, type_name)

\* The map branch of write_field_type: m is the map<K, V> text.
write_map_type(w, m) == IF m.err # "none" THEN Raise(w, m.err) ELSE write(w, m.s)

\* write_field_type once get_nested_type(message, type_name) returned g.
write_nested_type_name(w, message, field, type_name, g) ==
    IF g.err # "none" THEN Raise(w, g.err)
    ELSE IF message.nested_type[g.i].map_entry
         THEN write_map_type(w,
                  map_type_name(
                      get_field_type_name(w,
                          get_field(message.nested_type[g.i].field, <<"key">>)),
                      get_field_type_name(w,
                          get_field(message.nested_type[g.i].field, <<"value">>))))
         ELSE write_label_and_type(w, field, type_name)

\* write_field_type once get_field_type_name(field) returned r.
write_resolved_type(w, message, field, r) ==
    IF r.err # "none" THEN Raise(w, r.err)
    ELSE IF ~(/\ TypeName(field.type) \in {"TYPE_MESSAGE", "TYPE_ENUM"}
              /\ StartsWith(r.s, message.name \o <<".">>))
         THEN write_label_and_type(w, field, r.s)
         ELSE IF TypeName(field.type) = "TYPE_MESSAGE"
              THEN write_nested_type_name(w, message, field,
                       Slice(r.s, Len(message.name) + 1),
                       get_nested_type(message.nested_type,
                                       Slice(r.s, Len(message.name) + 1)))
              ELSE write_label_and_type(w, field, Slice(r.s, Len(message.name) + 1))

write_field_type(w, message, field) ==
    IF w.err # "none" THEN w
    ELSE write_resolved_type(w, message, field, get_field_type_name(w, SomeField(field)))

\* if field.default_value: raise; if field.extendee: raise
raise_unsupported(w, field) ==
    IF field.default_value # <<>> \/ field.extendee # <<>>
    THEN Raise(w, "NotImplementedError") ELSE w

\* if field.options: self.write_field_options(field.options)
write_options_of(w, field) ==
    IF MessageTruthy(field.options) THEN write_field_options(w, field.options) ELSE w

\* Variant: the default_value and extendee checks come after the statement
\* has been terminated.
write_message_field_late_check(w, message, field) ==
    raise_unsupported(
        write(write_options_of(
                  write(write_field_type(write_indent(w), message, field),
                        <<" ">> \o field.name \o <<" = ">> \o IntStr(field.number)),
                  field),
              <<";\n">>),
        field)

write_message_field(w, message, field) ==
    write(write_options_of(
              raise_unsupported(
                  write(write_field_type(write_indent(w), message, field),
                        <<" ">> \o field.name \o <<" = ">> \o IntStr(field.number)),
                  field),
              field),
          <<";\n">>)

RECURSIVE write_message_fields(_, _, _)
write_message_fields(w, message, fields) ==
    IF w.err # "none" \/ fields = <<>> THEN w
    ELSE write_message_fields(write_message_field(w, message, Head(fields)),
                              message, Tail(fields))

(***************************************************************************)
(* Messages.                                                               *)
(***************************************************************************)
RECURSIVE write_message_type(_, _)
RECURSIVE write_nested_types(_, _)

write_nested_types(w, nested_types) ==
    IF w.err # "none" \/ nested_types = <<>> THEN w
    ELSE write_nested_types(
             IF Head(nested_types).map_entry THEN w
             ELSE write_message_type(w, Head(nested_types)),
             Tail(nested_types))

write_message_body(w, message) ==
    IndentLeave(
        write_enum_types(
            write_nested_types(
                write_message_fields(IndentEnter(w), message, message.field),
                message.nested_type),
            message.enum_type))

write_message_type(w, message) ==
    write_ln(write_message_body(write_ln(w, <<"message ">> \o message.name \o <<" {">>),
                                message),
             <<"}">>)

RECURSIVE write_message_types(_, _)
write_message_types(w, messages) ==
    IF w.err # "none" \/ messages = <<>> THEN w
    ELSE write_message_types(write_message_type(w, Head(messages)), Tail(messages))

(***************************************************************************)
(* ProtoWriter.__call__ and desc2proto.  The result is the writer after    *)
(* the call and the descriptor after the call.                             *)
(***************************************************************************)
\* if not desc.syntax: desc.syntax = 'proto2'
default_syntax(d) == IF d.syntax = <<>> THEN [d EXCEPT !.syntax = <<"proto2">>] ELSE d

\* if desc.package: self.package_name = desc.package; write_stmt(package ...)
write_package(w, d) ==
    IF d.package # <<>>
    THEN write_stmt([w EXCEPT !.has_package = TRUE, !.package_name = d.package],
                    <<"package ">> \o d.package)
    ELSE w

\* if desc.options: self.write_file_options(desc.options); self.write('\n')
write_options_block(w, d) ==
    IF MessageTruthy(d.options) THEN write(write_file_options(w, d.options), <<"\n">>)
    ELSE w

\* __call__ on a descriptor whose syntax has been defaulted.
write_file(writer, d) ==
    write_message_types(
        write_enum_types(
            write_dependency(
                write_options_block(
                    write(write_package(
                              write_stmt([writer EXCEPT !.out = <<>>, !.indent_level = 0,
                                                        !.err = "none"],
                                         <<"syntax = ", Q>> \o d.syntax \o <<Q>>),
                              d),
                          <<"\n">>),
                    d),
                d.dependency),
            d.enum_type),
        d.message_type)

call(writer, d) ==
    [w |-> write_file(writer, default_syntax(d)), desc |-> default_syntax(d)]

desc2proto(d) ==
    call(NewWriter(IF d.syntax # <<>> /\ d.syntax = <<"proto3">>
                   THEN "Desc2Proto3" ELSE "Desc2Proto2"),
         d)

(***************************************************************************)
(* The descriptors explored.  A descriptor is what ParseFromString yields: *)
(* syntax and package are strings (empty when unset), options are the      *)
(* ListFields() of the options message, in field-number order.             *)
(***************************************************************************)
Opt(name, t, s, b, n) == [name |-> <<name>>, t |-> t, s |-> s, b |-> b, n |-> n]

\* FieldOptions: ctype = 1 (enum), packed = 2, deprecated = 3
FieldOptionPool ==
    << Opt("ctype", "int", <<>>, FALSE, 1),
       Opt("packed", "bool", <<>>, TRUE, 0),
       Opt("deprecated", "bool", <<>>, FALSE, 0) >>

\* FileOptions: java_package = 1, optimize_for = 9, java_multiple_files = 10,
\* features = 50 (a message)
FileOptionPool ==
    << Opt("java_package", "str", <<"com", ".", "x">>, FALSE, 0),
       Opt("optimize_for", "int", <<>>, FALSE, 2),
       Opt("java_multiple_files", "bool", <<>>, TRUE, 0),
       Opt("features", "message", <<>>, FALSE, 0) >>

RECURSIVE Pick(_, _, _)
Pick(pool, S, i) ==
    IF i > Len(pool) THEN <<>>
    ELSE (IF i \in S THEN <<pool[i]>> ELSE <<>>) \o Pick(pool, S, i + 1)

OptionLists(pool) ==
    { Pick(pool, S, 1) : S \in { T \in SUBSET (1..Len(pool)) : Cardinality(T) <= MaxOptions } }

Field(name, number, type, type_name, label, options, default_value, extendee) ==
    [name |-> <<name>>, number |-> number, type |-> type, type_name |-> type_name,
     label |-> label, options |-> options, default_value |-> default_value,
     extendee |-> extendee]

Msg(name, field, nested_type, enum_type, map_entry) ==
    [name |-> name, field |-> field, nested_type |-> nested_type,
     enum_type |-> enum_type, map_entry |-> map_entry]

Enum(name) ==
    [name |-> <<name>>,
     value |-> << [name |-> <<"A">>, number |-> 0], [name |-> <<"B">>, number |-> 1] >>]

RECURSIVE Dotted(_)
Dotted(names) ==
    IF names = <<>> THEN <<>>
    ELSE IF Len(names) = 1 THEN Head(names)
    ELSE Head(names) \o <<".">> \o Dotted(Tail(names))

\* The fully-qualified type_name protoc records for a type: .package.Outer.Inner
TypeRef(package, names) ==
    <<".">> \o (IF package = <<>> THEN <<>> ELSE package \o <<".">>) \o Dotted(names)

LevelName(d) ==
    CASE d = 1 -> <<"M">> [] d = 2 -> <<"Inner">> [] d = 3 -> <<"Deep">>
      [] OTHER -> <<"Deeper">>

KeyField == Field("key", 1, 9, <<>>, 1, <<>>, <<>>, <<>>)
ValueField == Field("value", 2, 5, <<>>, 1, <<>>, <<>>, <<>>)

\* The nested types a map field may point at: protoc's synthesized entry,
\* entries lacking a field, and an ordinary nested message.
EntryTypes ==
    { Msg(<<"TagsEntry">>, <<KeyField, ValueField>>, <<>>, <<>>, TRUE),
      Msg(<<"TagsEntry">>, <<ValueField>>, <<>>, <<>>, TRUE),
      Msg(<<"TagsEntry">>, <<KeyField>>, <<>>, <<>>, TRUE),
      Msg(<<"TagsEntry">>, <<KeyField, ValueField>>, <<>>, <<>>, FALSE) }

TagsField == Field("tags", 2, 9, <<>>, 3, <<>>, <<>>, <<>>)
DefaultedField == Field("n", 2, 5, <<>>, 1, <<>>, <<"7">>, <<>>)

\* First fields of a message at path names in a file with the given package.
FirstFields(package, names) ==
    LET refs == { <<3, <<>> >>, <<9, <<>> >>, <<10, <<>> >>,
                  <<11, TypeRef(package, << <<"X">> >>)>>,
                  <<14, TypeRef(package, << <<"E">> >>)>>,
                  <<11, TypeRef(package, names \o << <<"Missing">> >>)>> }
    IN { Field("id", 1, r[1], r[2], l, <<>>, <<>>, <<>>) : r \in refs, l \in 1..3 }
       \cup { Field("id", 1, r[1], r[2], 1, <<>>, <<"7">>, <<>>) : r \in refs }
       \cup { Field("id", 1, r[1], r[2], 1, <<>>, <<>>, TypeRef(package, << <<"X">> >>)) :
                r \in refs }
       \cup { Field("id", 1, 3, <<>>, 2, <<>>, <<"7">>, <<>>) }
       \cup { Field("id", 1, 3, <<>>, 1, o, d, <<>>) :
                o \in OptionLists(FieldOptionPool) \ {<<>>}, d \in {<<>>, <<"7">>} }

MapFields(package, names) ==
    { Field("tags", 3, 11, TypeRef(package, names \o << <<"TagsEntry">> >>), l, <<>>, d, <<>>) :
        l \in {1, 3}, d \in {<<>>, <<"7">>} }

\* Messages without nested messages, at path names.
LeafMessages(package, names) ==
    LET name == names[Len(names)]
    IN { Msg(name, <<f>>, <<>>, <<>>, FALSE) : f \in FirstFields(package, names) }
       \cup { Msg(name, <<f, g>>, <<>>, <<Enum("Kind")>>, FALSE) :
                f \in { h \in FirstFields(package, names) :
                          h.label # 2 /\ h.type \in {3, 10} /\ h.options = <<>> },
                g \in {TagsField, DefaultedField} }
       \cup { Msg(name, <<f>>, <<e>>, <<>>, FALSE) :
                f \in MapFields(package, names), e \in EntryTypes }

RECURSIVE Messages(_, _)
Messages(package, names) ==
    LeafMessages(package, names)
    \cup IF Len(names) >= MaxDepth THEN {}
         ELSE { Msg(names[Len(names)], <<>>, <<inner>>, <<>>, FALSE) :
                  inner \in Messages(package, names \o <<LevelName(Len(names) + 1)>>) }

File(syntax, package, options, dependency, enum_type, message_type) ==
    [syntax |-> syntax, package |-> package, options |-> options,
     dependency |-> dependency, enum_type |-> enum_type, message_type |-> message_type]

Syntaxes == { <<>>, <<"proto2">>, <<"proto3">> }
Packages == { <<>>, <<"p">> }

SimpleMessage(name) ==
    Msg(<<name>>, <<Field("id", 1, 3, <<>>, 1, <<>>, <<>>, <<>>), TagsField>>, <<>>, <<>>, FALSE)

Descriptors ==
    UNION { { File(s, p, <<>>, <<>>, <<>>, <<m>>) :
                s \in Syntaxes, m \in Messages(p, <<LevelName(1)>>) } : p \in Packages }
    \cup { File(s, <<"p">>, <<>>, <<>>, <<>>, <<m, SimpleMessage("N")>>) :
             s \in Syntaxes,
             m \in { Msg(<<"M">>, <<f>>, <<>>, <<>>, FALSE) :
                       f \in { Field("id", 1, 3, <<>>, 1, <<>>, <<>>, <<>>),
                               Field("id", 1, 3, <<>>, 1, <<>>, <<"7">>, <<>>),
                               Field("id", 1, 3, <<>>, 2, <<>>, <<>>, <<>>) } } }
    \cup { File(<<"proto3">>, p, o, d, e, <<SimpleMessage("M")>>) :
             p \in Packages, o \in OptionLists(FileOptionPool),
             d \in { <<>>, << <<"a", ".", "proto">> >> },
             e \in { <<>>, <<Enum("E")>> } }

(***************************************************************************)
(* The state machine.                                                      *)
(*   desc    the descriptor object handed to the renderer                  *)
(*   pre     its value when it was parsed                                  *)
(*   phase   "idle" with no descriptor, "loaded" before the render, "done"  *)
(*           after it                                                      *)
(*   via     how the last render was invoked: "desc2proto" or "call"       *)
(*   conv    the ProtoWriter instance's attributes (cls "none": no         *)
(*           instance yet)                                                 *)
(*   out     the text the last render wrote to its sink                    *)
(*   err     the exception the last render raised, or "none"               *)
(*   fresh   what a newly constructed writer of the same class writes for  *)
(*           the same descriptor                                           *)
(***************************************************************************)
Attrs(w) ==
    [cls |-> w.cls, indent_level |-> w.indent_level, has_package |-> w.has_package,
     package_name |-> w.package_name]

Instance(c) ==
    [cls |-> c.cls, out |-> <<>>, indent_level |-> c.indent_level,
     has_package |-> c.has_package, package_name |-> c.package_name, err |-> "none"]

Result(w) == [out |-> w.out, err |-> w.err]

NoResult == [out |-> <<>>, err |-> "none"]

NoDescriptor == File(<<>>, <<>>, <<>>, <<>>, <<>>, <<>>)

Init ==
    /\ desc = NoDescriptor
    /\ pre = NoDescriptor
    /\ phase = "idle"
    /\ via = "none"
    /\ conv = Attrs(NewWriter("none"))
    /\ out = <<>>
    /\ err = "none"
    /\ fresh = NoResult

\* A descriptor is parsed and a sink opened.
Parse ==
    /\ phase = "idle"
    /\ \E d \in Descriptors :
          /\ desc' = d
          /\ pre' = d
    /\ phase' = "loaded"
    /\ UNCHANGED <<via, conv, out, err, fresh>>

\* desc2proto(desc, out): a new writer chosen by the syntax renders desc.
Desc2Proto ==
    /\ phase = "loaded"
    /\ \E r \in {desc2proto(desc)} :
          /\ desc' = r.desc
          /\ conv' = Attrs(r.w)
          /\ out' = r.w.out
          /\ err' = r.w.err
          /\ fresh' = Result(r.w)
    /\ phase' = "done"
    /\ via' = "desc2proto"
    /\ UNCHANGED pre

\* conv(desc, out) on the writer instance that already rendered a file.
Call ==
    /\ phase = "loaded"
    /\ conv.cls # "none"
    /\ \E r \in {call(Instance(conv), desc)} :
          /\ desc' = r.desc
          /\ conv' = Attrs(r.w)
          /\ out' = r.w.out
          /\ err' = r.w.err
    /\ fresh' = Result(call(NewWriter(conv.cls), desc).w)
    /\ phase' = "done"
    /\ via' = "call"
    /\ UNCHANGED pre

\* The sink is closed and the descriptor dropped; the writer instance stays.
Close ==
    /\ phase = "done"
    /\ desc' = NoDescriptor
    /\ pre' = NoDescriptor
    /\ phase' = "idle"
    /\ via' = "none"
    /\ out' = <<>>
    /\ err' = "none"
    /\ fresh' = NoResult
    /\ UNCHANGED conv

Next == Parse \/ Desc2Proto \/ Call \/ Close

Spec == Init /\ [][Next]_vars

(***************************************************************************)
(* Reading the sink: lines, message blocks and the line of each field.     *)
(***************************************************************************)
IsTerminator(a) == a = "\n" \/ a = ";\n"

\* The positions at which a line of o ends: every terminator, and the last
\* atom of an unterminated last line.
LineEnds(o) ==
    { i \in 1..Len(o) : IsTerminator(o[i]) \/ i = Len(o) }

\* The lines of o, each with its terminator if it has one.
Lines(o) ==
    LET ends == LineEnds(o)
    IN [ n \in 1..Cardinality(ends) |->
           LET e == CHOOSE i \in ends : Cardinality({ j \in ends : j <= i }) = n
               before == { j \in ends : j < e }
               b == IF before = {} THEN 1
                    ELSE (CHOOSE j \in before : \A x \in before : x <= j) + 1
           IN SubSeq(o, b, e) ]

RECURSIVE Unindent(_)
Unindent(line) ==
    IF line # <<>> /\ <<Head(line)>> = indent THEN Unindent(Tail(line)) ELSE line

IsHeader(line) == Unindent(line) # <<>> /\ Unindent(line)[1] = "message "

\* The line numbers of the `message <name> {` lines, in order.
HeaderLines(lines) ==
    LET hs == { n \in 1..Len(lines) : IsHeader(lines[n]) }
    IN [ k \in 1..Cardinality(hs) |->
           CHOOSE n \in hs : Cardinality({ m \in hs : m <= n }) = k ]

\* The message blocks a complete render emits, in emission order, each with
\* its nesting depth and the path of names from the top-level message.
RECURSIVE Emitted(_, _, _)
Emitted(messages, depth, path) ==
    IF messages = <<>> THEN <<>>
    ELSE LET m == Head(messages)
         IN (IF depth > 1 /\ m.map_entry THEN <<>>
             ELSE << [m |-> m, depth |-> depth, path |-> Append(path, m.name)] >>
                  \o Emitted(m.nested_type, depth + 1, Append(path, m.name)))
            \o Emitted(Tail(messages), depth, path)

\* The fields whose line the render started: field j of the k-th block,
\* with the text of its line after the block's indentation.
Reached(d, o) ==
    LET lines == Lines(o)
        hdr == HeaderLines(lines)
        em == Emitted(d.message_type, 1, <<>>)
    IN { [k |-> kj[1], j |-> kj[2], f |-> em[kj[1]].m.field[kj[2]], m |-> em[kj[1]].m,
          depth |-> em[kj[1]].depth, path |-> em[kj[1]].path,
          line |-> lines[hdr[kj[1]] + kj[2]],
          last |-> (hdr[kj[1]] + kj[2] = Len(lines))] :
         kj \in { x \in UNION { { <<k, j>> : j \in 1..Len(em[k].m.field) } :
                                  k \in 1..Len(em) } :
                    /\ x[1] <= Len(hdr)
                    /\ hdr[x[1]] + x[2] <= Len(lines) } }

Body(t) == SubSeq(t.line, t.depth + 1, Len(t.line))

Indented(t) == Len(t.line) >= t.depth /\ SubSeq(t.line, 1, t.depth) = Rep(indent, t.depth)

Terminated(line) == line # <<>> /\ IsTerminator(line[Len(line)])

IsScalar(f) == TypeName(f.type) \in DOMAIN name_map

\* f is a map field of its message: a MESSAGE field whose type_name is the
\* fully-qualified name of a nested type of that message flagged map_entry.
IsMapField(d, t) ==
    /\ TypeName(t.f.type) = "TYPE_MESSAGE"
    /\ \E i \in 1..Len(t.m.nested_type) :
          /\ t.m.nested_type[i].map_entry
          /\ t.f.type_name = TypeRef(d.package, Append(t.path, t.m.nested_type[i].name))

Count(o, a) == Cardinality({ i \in 1..Len(o) : o[i] = a })

Rendered == phase = "done"

(***************************************************************************)
(* C9.  The label policy follows the descriptor's syntax.                  *)
(***************************************************************************)
LabelKeyword(syntax, label) ==
    IF syntax = <<"proto3">>
    THEN (IF LabelName(label) = "LABEL_REPEATED" THEN <<"repeated ">> ELSE <<>>)
    ELSE CASE LabelName(label) = "LABEL_OPTIONAL" -> <<"optional ">>
           [] LabelName(label) = "LABEL_REQUIRED" -> <<"required ">>
           [] LabelName(label) = "LABEL_REPEATED" -> <<"repeated ">>

\* The atoms a field's type name can start with.
TypeAtoms(f) ==
    IF IsScalar(f) THEN { name_map[TypeName(f.type)] }
    ELSE { f.type_name[i] : i \in 1..Len(f.type_name) } \ {"."}

LabelThenType(t) ==
    LET kw == LabelKeyword(pre.syntax, t.f.label)
        body == Body(t)
    IN IF pre.syntax = <<"proto3">> /\ LabelName(t.f.label) = "LABEL_REQUIRED"
       THEN err # "none" /\ body = <<>> /\ t.last
       ELSE /\ IsScalar(t.f) => body # <<>>
            /\ body # <<>> =>
                 /\ StartsWith(body, kw)
                 /\ Len(body) > Len(kw)
                 /\ body[Len(kw) + 1] \in TypeAtoms(t.f)

\* C9: when desc2proto renders a file whose syntax is unset, proto2 or proto3,
\* the header names proto2 unless the syntax is proto3, and every field that
\* is not a map field and whose line the render starts is written as follows:
\* under proto3 a REQUIRED field aborts the render with nothing written for
\* it, an OPTIONAL field has no label keyword and a REPEATED field has
\* `repeated ` immediately before its type name; otherwise the keyword
\* `optional `, `required ` or `repeated ` of its label stands immediately
\* before its type name.
C9_LabelPolicy ==
    (Rendered /\ via = "desc2proto") =>
        /\ StartsWith(out, <<"syntax = ", Q>>
                           \o (IF pre.syntax = <<"proto3">> THEN <<"proto3">> ELSE <<"proto2">>)
                           \o <<Q, ";\n">>)
        /\ \A t \in Reached(pre, out) : ~IsMapField(pre, t) => LabelThenType(t)

\* A proto3 render that wrote an OPTIONAL field bare and a later REPEATED
\* field with its keyword.
C9_Witness ==
    /\ Rendered /\ via = "desc2proto" /\ err = "none"
    /\ pre.syntax = <<"proto3">>
    /\ \E t, u \in Reached(pre, out) :
          /\ t.depth = 2 /\ ~IsMapField(pre, t)
          /\ LabelName(t.f.label) = "LABEL_OPTIONAL"
          /\ Body(t)[1] = "int64"
          /\ LabelName(u.f.label) = "LABEL_REPEATED"
          /\ Body(u)[1] = "repeated "

(***************************************************************************)
(* C5.  Fields with a default_value or an extendee.                        *)
(***************************************************************************)
Unsupported(f) == f.default_value # <<>> \/ f.extendee # <<>>

\* The line stops after ` <name> = <number>`, preceded by a type.
StopsAfterNumber(t) ==
    LET body == Body(t)
        n == Len(body)
    IN /\ n >= 5
       /\ SubSeq(body, n - 3, n) = <<" ">> \o t.f.name \o <<" = ">> \o IntStr(t.f.number)

\* C5 as stated, for files with a package and fields that are not map
\* fields: a field with a non-empty default_value or extendee, once the render
\* starts its line, ends the render with NotImplementedError, and the sink
\* ends with that field's indentation, type and ` <name> = <number>` with no
\* `;` and nothing after it.
C5_AbortsAfterNumber ==
    (Rendered /\ via = "desc2proto" /\ pre.package # <<>>) =>
        \A t \in Reached(pre, out) :
            (Unsupported(t.f) /\ ~IsMapField(pre, t)) =>
                /\ err = "NotImplementedError"
                /\ t.last /\ ~Terminated(t.line)
                /\ Indented(t)
                /\ StopsAfterNumber(t)

\* C5 amended: a field with a non-empty default_value or extendee, once the
\* render starts its line, ends the render at that line, at every position of
\* the field in the tree: the line is the last text in the sink and has no
\* terminating `;`.  If the field's type and label were written, the error is
\* NotImplementedError and the line ends with ` <name> = <number>` after the
\* type; if resolving the type or writing the label failed, that failure is
\* the error and the line holds the indentation only.
C5_AbortsAtField ==
    Rendered =>
        \A t \in Reached(pre, out) :
            Unsupported(t.f) =>
                /\ err # "none"
                /\ t.last /\ ~Terminated(t.line)
                /\ Indented(t)
                /\ \/ Body(t) = <<>>
                   \/ err = "NotImplementedError" /\ StopsAfterNumber(t)

\* A nested message's second field carries a default_value: the first field's
\* line is complete, the second stops after its number.
C5_Witness ==
    /\ Rendered /\ err = "NotImplementedError"
    /\ \E t \in Reached(pre, out) :
          /\ t.depth = 2 /\ t.j = 2
          /\ t.f.default_value # <<>>
          /\ t.last /\ StopsAfterNumber(t)
          /\ Body(t)[1] \in {"optional ", "int32"}

(***************************************************************************)
(* C1.  Map fields.                                                        *)
(***************************************************************************)
RECURSIVE EntryNames(_)
EntryNames(messages) ==
    IF messages = <<>> THEN {}
    ELSE (IF Head(messages).map_entry THEN {Head(messages).name} ELSE {})
         \cup EntryNames(Head(messages).nested_type)
         \cup EntryNames(Tail(messages))

EntryOf(d, t) ==
    CHOOSE e \in { t.m.nested_type[i] : i \in 1..Len(t.m.nested_type) } :
        e.map_entry /\ t.f.type_name = TypeRef(d.package, Append(t.path, e.name))

ScalarOf(e, name) ==
    LET fs == { e.field[i] : i \in 1..Len(e.field) }
    IN IF \E f \in fs : f.name = name /\ IsScalar(f)
       THEN << name_map[TypeName((CHOOSE f \in fs : f.name = name /\ IsScalar(f)).type)] >>
       ELSE <<"?">>

\* C1: in a file with a package, a completed render writes every map field,
\* at any nesting depth, as `map<KeyType, ValueType> <name> = <number>;` with
\* no label, and the name of a map_entry type appears nowhere in the output.
C1_MapCollapsedEverywhere ==
    (Rendered /\ via = "desc2proto" /\ pre.package # <<>> /\ err = "none") =>
        /\ \A t \in Reached(pre, out) :
              IsMapField(pre, t) =>
                  Body(t) = <<"map<">> \o ScalarOf(EntryOf(pre, t), <<"key">>) \o <<", ">>
                            \o ScalarOf(EntryOf(pre, t), <<"value">>) \o <<">", " ">>
                            \o t.f.name \o <<" = ">> \o IntStr(t.f.number) \o <<";\n">>
        /\ \A i \in 1..Len(out) : <<out[i]>> \notin EntryNames(pre.message_type)

(***************************************************************************)
(* C2.  The file header.                                                   *)
(***************************************************************************)
Header(d) ==
    <<"syntax = ", Q>> \o (IF d.syntax = <<>> THEN <<"proto2">> ELSE d.syntax) \o <<Q, ";\n">>
    \o (IF d.package # <<>> THEN <<"package ">> \o d.package \o <<";\n">> ELSE <<>>)
    \o <<"\n">>

EndToEnd == File(<<"proto3">>, <<"p">>, <<>>, <<>>, <<>>, <<SimpleMessage("M")>>)

EndToEndText ==
    << "syntax = ", Q, "proto3", Q, ";\n",
       "package ", "p", ";\n",
       "\n",
       "message ", "M", " {", "\n",
       "    ", "int64", " ", "id", " = ", "1", ";\n",
       "    ", "repeated ", "string", " ", "tags", " = ", "2", ";\n",
       "}", "\n" >>

\* C2: for a descriptor without file-level options and without dependencies
\* the output of a completed render is the syntax statement, the package statement if a package is
\* set, exactly one blank line, and then the type blocks; the end-to-end
\* descriptor renders exactly the text of the scenario.
C2_HeaderThenTypes ==
    (Rendered /\ via = "desc2proto" /\ err = "none"
       /\ pre.options = <<>> /\ pre.dependency = <<>>) =>
        /\ StartsWith(out, Header(pre))
        /\ Len(out) > Len(Header(pre)) => out[Len(Header(pre)) + 1] \in {"enum ", "message "}
        /\ pre = EndToEnd => out = EndToEndText

(***************************************************************************)
(* C3.  Field options.                                                     *)
(***************************************************************************)
\* C3: in a completed render the line of a scalar field with n >= 1 options
\* has exactly one ` [`, one `]` directly before the `;`, and n - 1
\* separators `, `; the line of a field without options has no bracket.
C3_OneBracketClause ==
    (Rendered /\ err = "none") =>
        \A t \in Reached(pre, out) :
            IsScalar(t.f) =>
                IF t.f.options = <<>>
                THEN Count(t.line, " [") = 0 /\ Count(t.line, "]") = 0
                ELSE /\ Count(t.line, " [") = 1
                     /\ Count(t.line, "]") = 1
                     /\ Count(t.line, ", ") = Len(t.f.options) - 1
                     /\ SubSeq(t.line, Len(t.line) - 1, Len(t.line)) = <<"]", ";\n">>

(***************************************************************************)
(* C4.  Option values that are neither strings nor booleans.               *)
(***************************************************************************)
OtherTyped(options) ==
    \E i \in 1..Len(options) : options[i].t \notin {"str", "bool"}

FileOtherTyped(d) ==
    \E i \in 1..Len(d.options) :
        d.options[i].t \notin {"str", "bool"} /\ d.options[i].name # <<"optimize_for">>

FieldOtherTyped(d) ==
    LET em == Emitted(d.message_type, 1, <<>>)
    IN \E k \in 1..Len(em) : \E j \in 1..Len(em[k].m.field) :
          OtherTyped(em[k].m.field[j].options)

\* C4: a render of a descriptor holding a field-level option, or a file-level
\* option other than optimize_for, whose value is neither a string nor a
\* boolean fails, and no placeholder text is written for the value.
C4_OtherTypedOptionFails ==
    (Rendered /\ (FileOtherTyped(pre) \/ FieldOtherTyped(pre))) =>
        /\ err # "none"
        /\ Count(out, "None") = 0

(***************************************************************************)
(* C6.  Reuse of a writer instance.                                        *)
(***************************************************************************)
\* C6: a render on a writer instance that has rendered before writes the
\* text, and ends with the outcome, of a newly constructed writer.
C6_ReuseEqualsFresh ==
    (Rendered /\ via = "call") => (out = fresh.out /\ err = fresh.err)

(***************************************************************************)
(* C7.  The descriptor is read-only.                                       *)
(***************************************************************************)
\* C7: after a render, successful or failed, the descriptor has the value it
\* had before the call.
C7_DescriptorUnchanged ==
    Rendered => desc = pre

(***************************************************************************)
(* C8.  Files without a package.                                           *)
(***************************************************************************)
\* A message whose single field refers to a top-level message or enum and
\* uses nothing the renderer rejects.
PlainReference(d, t) ==
    /\ t.depth = 1 /\ Len(t.m.field) = 1
    /\ TypeName(t.f.type) \in {"TYPE_MESSAGE", "TYPE_ENUM"}
    /\ t.f.type_name \in { TypeRef(d.package, << <<"X">> >>), TypeRef(d.package, << <<"E">> >>) }
    /\ ~Unsupported(t.f)
    /\ ~(d.syntax = <<"proto3">> /\ LabelName(t.f.label) = "LABEL_REQUIRED")

\* C8: desc2proto on a descriptor whose field refers to a top-level message
\* or enum returns normally whether or not a package is set; without a
\* package no package statement is written; the field's type is its
\* type_name without the leading `.` and without the `<package>.` prefix.
C8_PackageOptional ==
    (Rendered /\ via = "desc2proto") =>
        \A t \in Reached(pre, out) :
            PlainReference(pre, t) =>
                /\ err = "none"
                /\ pre.package = <<>> => Count(out, "package ") = 0
                /\ Body(t) = LabelKeyword(pre.syntax, t.f.label)
                             \o Slice(t.f.type_name, Len(t.f.type_name) - 1)
                             \o <<" ">> \o t.f.name \o <<" = ">> \o IntStr(t.f.number)
                             \o <<";\n">>

(***************************************************************************)
(* C10.  Lookups that find nothing.                                        *)
(***************************************************************************)
HasField(e, name) == \E i \in 1..Len(e.field) : e.field[i].name = name

\* The field's name, stripped of the package and of its message's own
\* prefix, names no nested type of the message, or names a map_entry type
\* without a key or without a value field.
Unresolvable(d, t) ==
    LET stripped == remove_prefix(lstrip_dot(t.f.type_name), d.package \o <<".">>)
        rest == Slice(stripped, Len(t.m.name) + 1)
        named == { i \in 1..Len(t.m.nested_type) : t.m.nested_type[i].name = rest }
    IN /\ TypeName(t.f.type) = "TYPE_MESSAGE"
       /\ StartsWith(stripped, t.m.name \o <<".">>)
       /\ \/ named = {}
          \/ \E i \in named :
                /\ t.m.nested_type[i].map_entry
                /\ ~(HasField(t.m.nested_type[i], <<"key">>)
                     /\ HasField(t.m.nested_type[i], <<"value">>))

\* C10: in a file with a package, a field of a top-level message whose lookup
\* finds nothing ends the render with LookupError, and neither a type name
\* nor a map<...> is written for it.
C10_LookupError ==
    (Rendered /\ via = "desc2proto" /\ pre.package # <<>>) =>
        \A t \in Reached(pre, out) :
            (t.depth = 1 /\ Unresolvable(pre, t)) =>
                /\ err = "LookupError"
                /\ Body(t) = <<>> /\ t.last

====
